---- MODULE Spec2Model ----
(***************************************************************************)
(* State-machine model of the NNTP archiver of src/main.go: the            *)
(* NNTPClient session (connect, send, recv, Group, GetHeaders, Article,    *)
(* Quit) and the saveToMbox fetch loop that drives it.                     *)
(*                                                                         *)
(* Text is modelled as a sequence of one-character strings.  Two symbols   *)
(* stand for longer texts: "Date:" for the five characters of the header   *)
(* name and "T" for a date text that time.Parse accepts under the RFC1123  *)
(* layout; the instant such a text denotes is drawn when it is parsed.  A  *)
(* line on the wire ends with CR LF.                                       *)
(***************************************************************************)
EXTENDS Integers, Sequences, FiniteSets, TLC

CR == "\r"
LF == "\n"
SP == " "
TAB == "\t"
DOT == "."

DigitChars == {"0", "1", "2", "3", "4", "5", "6", "7", "8", "9"}

DigitVal(c) ==
    CASE c = "0" -> 0 [] c = "1" -> 1 [] c = "2" -> 2 [] c = "3" -> 3
      [] c = "4" -> 4 [] c = "5" -> 5 [] c = "6" -> 6 [] c = "7" -> 7
      [] c = "8" -> 8 [] c = "9" -> 9

DigitChar(n) ==
    CASE n = 0 -> "0" [] n = 1 -> "1" [] n = 2 -> "2" [] n = 3 -> "3"
      [] n = 4 -> "4" [] n = 5 -> "5" [] n = 6 -> "6" [] n = 7 -> "7"
      [] n = 8 -> "8" [] n = 9 -> "9"

(* fmt.Sprintf("%d", n) for the small non-negative numbers of the model *)
RECURSIVE Itoa(_)
Itoa(n) == IF n < 10 THEN <<DigitChar(n)>> ELSE Itoa(n \div 10) \o <<DigitChar(n % 10)>>

(* unicode.IsSpace for the characters of the model *)
IsSpace(c) == c \in {SP, TAB, CR, LF}

RECURSIVE TrimLeft(_)
TrimLeft(s) == IF s # <<>> /\ IsSpace(Head(s)) THEN TrimLeft(Tail(s)) ELSE s

RECURSIVE TrimRight(_)
TrimRight(s) ==
    IF s # <<>> /\ IsSpace(s[Len(s)]) THEN TrimRight(SubSeq(s, 1, Len(s) - 1)) ELSE s

(* strings.TrimSpace *)
TrimSpace(s) == TrimRight(TrimLeft(s))

(* strings.HasPrefix *)
HasPrefix(s, p) == Len(s) >= Len(p) /\ SubSeq(s, 1, Len(p)) = p

(* strings.Index(s, string(c)) + 1: the position of the first c, 0 if none *)
(* (t is the value of s, taken once)                                       *)
IndexOf(s, c) ==
    CHOOSE n \in {IF \E i \in 1..Len(t) : t[i] = c
                  THEN CHOOSE i \in 1..Len(t) : t[i] = c /\ \A j \in 1..(i - 1) : t[j] # c
                  ELSE 0 : t \in {s}} : TRUE

(* strings.Split(s, string(sep)): always at least one field *)
RECURSIVE Split(_, _)
Split(s, sep) ==
    LET i == IndexOf(s, sep)
    IN  IF i = 0 THEN <<s>>
        ELSE <<SubSeq(s, 1, i - 1)>> \o Split(SubSeq(s, i + 1, Len(s)), sep)

(* strings.Join(lines, "\n") *)
RECURSIVE Join(_)
Join(lines) ==
    IF lines = <<>> THEN <<>>
    ELSE IF Len(lines) = 1 THEN lines[1]
    ELSE lines[1] \o <<LF>> \o Join(Tail(lines))

(* The longest prefix of s made of digits *)
RECURSIVE DigitPrefix(_)
DigitPrefix(s) ==
    IF s # <<>> /\ Head(s) \in DigitChars THEN <<Head(s)>> \o DigitPrefix(Tail(s)) ELSE <<>>

RECURSIVE Atoi(_)
Atoi(ds) == IF ds = <<>> THEN 0 ELSE 10 * Atoi(SubSeq(ds, 1, Len(ds) - 1)) + DigitVal(ds[Len(ds)])

(* var n int; fmt.Sscanf(s, "%d", &n) with the error ignored: leading      *)
(* spaces are skipped, an optional sign and the digits that follow are     *)
(* read, and the rest of s is left alone; when no digit is found the scan  *)
(* fails and n keeps its zero value.                                       *)
SscanfInt(s) ==
    LET t == TrimLeft(s)
        neg == t # <<>> /\ Head(t) = "-"
        u == IF t # <<>> /\ Head(t) \in {"-", "+"} THEN Tail(t) ELSE t
        ds == DigitPrefix(u)
    IN  IF ds = <<>> THEN 0 ELSE IF neg THEN 0 - Atoi(ds) ELSE Atoi(ds)

(* A field is a well-formed integer: digits only, at least one *)
IsInteger(s) == s # <<>> /\ \A i \in 1..Len(s) : s[i] \in DigitChars


(***************************************************************************)
(* Bounds of the model.                                                    *)
(***************************************************************************)
MaxId == 3      \* the server's article ids are 1..MaxId
MaxDay == 1     \* calendar days are 0..MaxDay, two instants a day

NoDate == 0 - 1                     \* a nil *time.Time
Days == 0..MaxDay
Times == 0..(2 * MaxDay + 1)        \* instant 2d is midnight of day d, 2d+1 is later that day
DayOf(t) == t \div 2
Midnight(d) == 2 * d                \* time.Parse("2006-01-02", ...) gives midnight

VARIABLES
    pc,             \* position of saveToMbox / of the NNTPClient method it is in
    ctx,            \* who called connect(): "new" (NewNNTPClient) or "reconnect" (the loop)
    result,         \* "running", then what saveToMbox returns: "ok" or "error"
    conn,           \* c.conn: "nil", "open" or "closed" (Close was called on it)
    connId,         \* which transport c.conn holds: the number of successful dials
    opened,         \* the transports dialled and not yet closed
    sess,           \* Session state, which the code keeps only implicitly: "Connected"
                    \* after a dial, "Authenticated" after a 281, "Disconnected"
                    \* before the first dial, after Close and after a failed connect()
    wire,           \* bytes the server has sent on c.conn that no reader has consumed
    srvGroup,       \* server side: a group is selected on the current connection
    srvMore,        \* server side: it is inside a block and goes on sending lines
    shake,          \* what connect() has written and read on the transport c.conn
                    \* holds, in order
    first, last,    \* what Group returned
    existingArticles,   \* the keys of the map GetHeaders returned
    articleID,      \* the loop cursor
    served,         \* the article lines the server sent for the ARTICLE in progress
    content,        \* what Article returned
    articleDate,    \* the date the filter used, NoDate outside the filter
    mbox,           \* the records written to the mbox file, in order: the id each
                    \* is for (its text is content as it is on the append)
    synced,         \* how many of them mboxFile.Sync() has flushed
    requested,      \* the ids of the ARTICLE commands issued, in order
    lastWrite,      \* the last c.conn.Write: the command and the state it was made in
    articleErrors,  \* Article calls that returned an error
    failed,         \* the ids they were called for
    reconnects,     \* c.conn.Close() calls of the loop
    connects,       \* connect() calls
    due,            \* ids answered 220 and not dropped by the date filter
    startDate, endDate,     \* the configured range: midnight instants, or NoDate
    fin, fout       \* input and result of a function applied on its own

connVars == <<conn, connId, opened, sess, wire, srvGroup, srvMore, shake>>
linkVars == <<conn, connId, opened, sess, srvGroup, srvMore, shake>>
loopVars == <<first, last, existingArticles, articleID>>
artVars == <<served, content, articleDate>>
outVars == <<mbox, synced>>
errVars == <<articleErrors, failed, reconnects, connects>>
histVars == <<requested, errVars, due>>
cfgVars == <<startDate, endDate>>
fnVars == <<fin, fout>>
vars == <<pc, ctx, result, connVars, loopVars, artVars, outVars, histVars, lastWrite,
          cfgVars, fnVars>>

(***************************************************************************)
(* The wire: what a buffered reader takes from it.                         *)
(***************************************************************************)
Line(s) == s \o <<CR, LF>>
Drop(s, n) == SubSeq(s, n + 1, Len(s))

(* reader.ReadString('\n') on a fresh bufio.Reader: the text through the    *)
(* first LF, or an error (deadline passed, connection closed) when the     *)
(* peer sent no complete line.                                             *)
HasLine(w) == IndexOf(w, LF) > 0
FirstLine(w) == SubSeq(w, 1, IndexOf(w, LF))

(* The bytes a bufio.Reader may have taken from the connection when        *)
(* ReadString returns its first line: the line, and as many of the bytes   *)
(* behind it as the Read calls that filled the buffer happened to return.  *)
OverRead(w) == 0..(Len(w) - IndexOf(w, LF))

(* The for-loop of Article and GetHeaders over one bufio.Reader: lines are *)
(* read and trimmed until one is a lone dot; a read error ends the loop.   *)
RECURSIVE ReadBlock(_, _)
ReadBlock(w, acc) ==
    IF ~HasLine(w) THEN [err |-> TRUE, lines |-> <<>>, rest |-> <<>>]
    ELSE LET line == TrimSpace(FirstLine(w))
             rest == Drop(w, IndexOf(w, LF))
         IN  IF line = <<DOT>> THEN [err |-> FALSE, lines |-> acc, rest |-> rest]
             ELSE ReadBlock(rest, Append(acc, line))

(***************************************************************************)
(* Group: the reply line to (first, last).                                 *)
(***************************************************************************)
(* Mutant: the fields are taken one place too early *)
GroupParseOffByOne(resp) ==
    IF ~HasPrefix(resp, <<"2", "1", "1">>) THEN [err |-> TRUE, first |-> 0, last |-> 0]
    ELSE LET parts == Split(resp, SP)
         IN  IF Len(parts) < 4 THEN [err |-> TRUE, first |-> 0, last |-> 0]
             ELSE [err |-> FALSE, first |-> SscanfInt(parts[2]), last |-> SscanfInt(parts[3])]

GroupParse(resp) ==
    IF ~HasPrefix(resp, <<"2", "1", "1">>) THEN [err |-> TRUE, first |-> 0, last |-> 0]
    ELSE LET parts == Split(resp, SP)
         IN  IF Len(parts) < 4 THEN [err |-> TRUE, first |-> 0, last |-> 0]
             ELSE [err |-> FALSE, first |-> SscanfInt(parts[3]), last |-> SscanfInt(parts[4])]

(***************************************************************************)
(* GetHeaders: the lines of the XOVER block to the keys of the map.        *)
(***************************************************************************)
OverviewId(line) == SscanfInt(Split(line, TAB)[1])

OverviewIndex(lines) == {OverviewId(lines[i]) : i \in 1..Len(lines)}

(***************************************************************************)
(* The Date header of an article and the date filter of saveToMbox.        *)
(***************************************************************************)
(* time.Parse(time.RFC1123, v): the layout starts with the day name, so a  *)
(* value with anything in front of it, a space included, does not parse.   *)
ParsesRFC1123(v) == v = <<"T">>

IsDateLine(line) == line # <<>> /\ line[1] = "Date:"

(* The first line with the prefix decides; the loop breaks there. *)
ArticleDate(text, now, when) ==
    LET ls == Split(text, LF)
        hits == {i \in 1..Len(ls) : IsDateLine(ls[i])}
    IN  IF hits = {} THEN now
        ELSE LET i == CHOOSE j \in hits : \A l \in hits : j <= l
                 v == Tail(ls[i])
             IN  IF ParsesRFC1123(v) THEN when ELSE now

BeforeStart(t) == startDate # NoDate /\ t < startDate
AfterEnd(t) == endDate # NoDate /\ t > endDate


(***************************************************************************)
(* The server: what it may answer to each request line.  An empty answer   *)
(* is a server that stays silent (the read deadline passes) or that has    *)
(* dropped the connection.                                                 *)
(***************************************************************************)
Silent == <<>>
Status(a, b, c) == Line(<<a, b, c>>)

ServerGreeting == {Status("2", "0", "0"), Silent}
ServerUserReply == {Status("3", "8", "1"), Silent}
ServerPassReply == {Status("2", "8", "1"), Status("4", "8", "1"), Silent}
ServerModeReply == {Status("2", "0", "0"), Silent}
ServerQuitReply == {Status("2", "0", "5"), Silent}

(* 211 count low high group; an empty group has high = low - 1 *)
GroupLine(lo, hi) ==
    Line(<<"2", "1", "1", SP>> \o Itoa(IF hi < lo THEN 0 ELSE hi - lo + 1) \o <<SP>>
         \o Itoa(lo) \o <<SP>> \o Itoa(hi) \o <<SP, "g">>)

ServerGroupReply ==
    {GroupLine(lo, hi) : lo \in 1..MaxId, hi \in 0..MaxId} \cup {Status("4", "1", "1"), Silent}

(* The overview lines of the ids in P, in ascending order *)
RECURSIVE OverviewLines(_, _, _)
OverviewLines(P, lo, hi) ==
    IF lo > hi THEN <<>>
    ELSE (IF lo \in P THEN Line(Itoa(lo) \o <<TAB, "s">>) ELSE <<>>) \o OverviewLines(P, lo + 1, hi)

ServerXoverReply(lo, hi) ==
    {Status("2", "2", "4") \o OverviewLines(P, lo, hi) \o Line(<<DOT>>) : P \in SUBSET (lo..hi)}
        \cup {Status("4", "2", "0"), Silent}

(* The articles the server holds: a header line (or none) and a body line *)
(* that ends in a full stop, as a sentence does                            *)
DateHeader == <<"Date:", "T">>          \* parses under RFC1123
DateHeaderSp == <<"Date:", SP, "T">>    \* the usual form, a space after the colon
BodyLine == <<"b", DOT>>
Texts == {<<DateHeader, BodyLine>>, <<DateHeaderSp, BodyLine>>, <<BodyLine>>}

RECURSIVE WireLines(_)
WireLines(ls) == IF ls = <<>> THEN <<>> ELSE Line(Head(ls)) \o WireLines(Tail(ls))

BlockOf(text) == WireLines(text) \o Line(<<DOT>>)

(* ARTICLE n: 412 when no group is selected on this connection; else the   *)
(* article (220 and its block: whole, or cut short by a dropped            *)
(* connection, or with no end in sight, the server going on to send        *)
(* lines), 423 no such article, or nothing at all.                         *)
ServerArticleReply(groupSelected) ==
    IF ~groupSelected
    THEN {[wire |-> Status("4", "1", "2"), text |-> <<>>, more |-> FALSE]}
    ELSE {[wire |-> Status("2", "2", "0") \o BlockOf(t), text |-> t, more |-> FALSE] :
              t \in Texts}
         \cup {[wire |-> Status("2", "2", "0") \o WireLines(t), text |-> t, more |-> m] :
                  t \in Texts, m \in BOOLEAN}
         \cup {[wire |-> Status("4", "2", "3"), text |-> <<>>, more |-> FALSE],
               [wire |-> Silent, text |-> <<>>, more |-> FALSE]}


(***************************************************************************)
(* Init: saveToMbox is entered with the range main() parsed.               *)
(***************************************************************************)
NoWrite ==
    [cmd |-> "none", handleOpen |-> TRUE, sess |-> "Connected", groupSel |-> FALSE,
     shake |-> <<>>]

FnIdle == fin = <<>> /\ fout = <<>>

RunIdle ==
    /\ ctx = "new" /\ result = "running"
    /\ conn = "nil" /\ connId = 0 /\ opened = {} /\ sess = "Disconnected"
    /\ wire = <<>> /\ srvGroup = FALSE /\ srvMore = FALSE /\ shake = <<>>
    /\ first = 0 /\ last = 0 /\ existingArticles = {} /\ articleID = 0
    /\ served = <<>> /\ content = <<>> /\ articleDate = NoDate
    /\ mbox = <<>> /\ synced = 0
    /\ requested = <<>> /\ articleErrors = 0 /\ failed = {}
    /\ reconnects = 0 /\ connects = 0 /\ due = {}
    /\ lastWrite = NoWrite

Init ==
    /\ pc = "start"
    /\ RunIdle
    /\ startDate \in {NoDate} \cup {Midnight(d) : d \in Days}
    /\ endDate \in {NoDate} \cup {Midnight(d) : d \in Days}
    /\ FnIdle

(* main() refuses to run without a username and a password *)
HasCredentials == TRUE

(***************************************************************************)
(* send and recv.                                                          *)
(***************************************************************************)
(* c.conn.Write: the line is handed to the transport c.conn holds, in      *)
(* whatever state that transport and the session are.                      *)
Write(cmd) ==
    lastWrite' = [cmd |-> cmd, handleOpen |-> conn = "open", sess |-> sess,
                  groupSel |-> srvGroup, shake |-> shake]

(* recv(): a new bufio.Reader on c.conn, one ReadString, the reader and    *)
(* whatever else it buffered are dropped.                                  *)
RecvTakes(k) == wire' = Drop(wire, IndexOf(wire, LF) + k)
RecvLine == TrimSpace(FirstLine(wire))

(***************************************************************************)
(* connect(), entered from NewNNTPClient or from the loop.                 *)
(***************************************************************************)
DialOk(caller, stillOpen) ==
    /\ conn' = "open" /\ connId' = connId + 1
    /\ opened' = stillOpen \cup {connId + 1}
    /\ sess' = "Connected"
    /\ wire' \in ServerGreeting
    /\ srvGroup' = FALSE /\ srvMore' = FALSE /\ shake' = <<>>
    /\ ctx' = caller /\ pc' = "welcome" /\ result' = result

(* Mutant: a failed reconnect is logged and the loop goes on *)
ConnectFailedLoopGoesOn ==
    /\ sess' = "Disconnected"
    /\ result' = "error"
    /\ pc' = IF ctx = "new" THEN "done" ELSE "loop"

(* connect() returned an error *)
ConnectFailed ==
    /\ sess' = "Disconnected"
    /\ result' = "error"
    /\ pc' = IF ctx = "new" THEN "done" ELSE "quit_send"

(* Mutant: after a reconnect the loop fetches the same id again *)
ConnectSucceededRetriesId ==
    /\ result' = result
    /\ articleID' = articleID
    /\ pc' = IF ctx = "new" THEN "group_send" ELSE "loop"

(* connect() returned nil: NewNNTPClient returns the client, the loop      *)
(* continues with the next id.                                             *)
ConnectSucceeded ==
    /\ result' = result
    /\ IF ctx = "new"
       THEN pc' = "group_send" /\ articleID' = articleID
       ELSE pc' = "loop" /\ articleID' = articleID - 1

NewNNTPClient ==
    /\ pc = "start"
    /\ \/ DialOk("new", opened)
       \/ /\ pc' = "done" /\ result' = "error"
          /\ UNCHANGED <<ctx, connVars>>
    /\ connects' = connects + 1
    /\ UNCHANGED <<loopVars, artVars, outVars, requested, articleErrors, failed,
                   reconnects, due, lastWrite, cfgVars, fnVars>>

RecvWelcome ==
    /\ pc = "welcome"
    /\ IF HasLine(wire)
       THEN /\ \E k \in OverRead(wire) : RecvTakes(k)
            /\ sess' = sess /\ shake' = Append(shake, "greeting")
            /\ IF HasCredentials
               THEN pc' = "user_send" /\ result' = result /\ articleID' = articleID
               ELSE ConnectSucceeded
       ELSE ConnectFailed /\ UNCHANGED <<wire, articleID, shake>>
    /\ UNCHANGED <<ctx, conn, connId, opened, srvGroup, srvMore, first, last, existingArticles,
                   artVars, outVars, histVars, lastWrite, cfgVars, fnVars>>

(* One request line of the handshake: on a write error connect() returns it *)
HandshakeSend(at, cmd, replies, next) ==
    /\ pc = at
    /\ Write(cmd)
    /\ shake' = Append(shake, cmd)
    /\ \/ /\ conn = "open"
          /\ \E r \in replies : wire' = wire \o r
          /\ pc' = next /\ sess' = sess /\ result' = result
       \/ ConnectFailed /\ wire' = wire
    /\ UNCHANGED <<ctx, conn, connId, opened, srvGroup, srvMore, loopVars, artVars, outVars,
                   histVars, cfgVars, fnVars>>

SendUser == HandshakeSend("user_send", "AUTHINFO USER", ServerUserReply, "user_recv")
SendPass == HandshakeSend("pass_send", "AUTHINFO PASS", ServerPassReply, "pass_recv")
SendMode == HandshakeSend("mode_send", "MODE READER", ServerModeReply, "mode_recv")

RecvUser ==
    /\ pc = "user_recv"
    /\ IF HasLine(wire)
       THEN /\ \E k \in OverRead(wire) : RecvTakes(k)
            /\ pc' = "pass_send" /\ sess' = sess /\ result' = result
            /\ shake' = Append(shake, "reply")
       ELSE ConnectFailed /\ UNCHANGED <<wire, shake>>
    /\ UNCHANGED <<ctx, conn, connId, opened, srvGroup, srvMore, loopVars, artVars, outVars,
                   histVars, lastWrite, cfgVars, fnVars>>

(* Mutant: the reply to AUTHINFO PASS is read and not looked at *)
RecvPassUnchecked ==
    /\ pc = "pass_recv"
    /\ IF HasLine(wire)
       THEN /\ \E k \in OverRead(wire) : RecvTakes(k)
            /\ pc' = "mode_send" /\ sess' = "Authenticated" /\ result' = result
            /\ shake' = Append(shake, IF HasPrefix(RecvLine, <<"2", "8", "1">>)
                                      THEN "281" ELSE "not 281")
       ELSE ConnectFailed /\ UNCHANGED <<wire, shake>>
    /\ UNCHANGED <<ctx, conn, connId, opened, srvGroup, srvMore, loopVars, artVars, outVars,
                   histVars, lastWrite, cfgVars, fnVars>>

RecvPass ==
    /\ pc = "pass_recv"
    /\ IF HasLine(wire)
       THEN /\ \E k \in OverRead(wire) : RecvTakes(k)
            /\ IF HasPrefix(RecvLine, <<"2", "8", "1">>)
               THEN /\ pc' = "mode_send" /\ sess' = "Authenticated" /\ result' = result
                    /\ shake' = Append(shake, "281")
               ELSE ConnectFailed /\ shake' = Append(shake, "not 281")
       ELSE ConnectFailed /\ UNCHANGED <<wire, shake>>
    /\ UNCHANGED <<ctx, conn, connId, opened, srvGroup, srvMore, loopVars, artVars, outVars,
                   histVars, lastWrite, cfgVars, fnVars>>

RecvMode ==
    /\ pc = "mode_recv"
    /\ IF HasLine(wire)
       THEN /\ \E k \in OverRead(wire) : RecvTakes(k)
            /\ sess' = sess /\ shake' = Append(shake, "reply")
            /\ ConnectSucceeded
       ELSE ConnectFailed /\ UNCHANGED <<wire, articleID, shake>>
    /\ UNCHANGED <<ctx, conn, connId, opened, srvGroup, srvMore, first, last, existingArticles,
                   artVars, outVars, histVars, lastWrite, cfgVars, fnVars>>


(***************************************************************************)
(* saveToMbox up to the loop: Group and GetHeaders.  An error return runs  *)
(* the deferred client.Quit().                                             *)
(***************************************************************************)
(* Mutant: the error is logged and saveToMbox goes on to the loop *)
ErrorReturnGoesOn == pc' = "loop" /\ result' = "error"

ErrorReturn == pc' = "quit_send" /\ result' = "error"

GroupSend ==
    /\ pc = "group_send"
    /\ Write("GROUP")
    /\ \/ \E r \in ServerGroupReply :
            /\ wire' = wire \o r
            /\ srvGroup' = HasPrefix(r, <<"2", "1", "1">>)
            /\ pc' = "group_recv" /\ result' = result
       \/ ErrorReturn /\ UNCHANGED <<wire, srvGroup>>
    /\ UNCHANGED <<ctx, conn, connId, opened, sess, srvMore, shake, loopVars, artVars, outVars,
                   histVars, cfgVars, fnVars>>

GroupRecv ==
    /\ pc = "group_recv"
    /\ IF HasLine(wire)
       THEN /\ \E k \in OverRead(wire) : RecvTakes(k)
            /\ \E g \in {GroupParse(resp) : resp \in {RecvLine}} :
                   IF g.err
                   THEN ErrorReturn /\ UNCHANGED <<first, last>>
                   ELSE /\ first' = g.first /\ last' = g.last
                        /\ pc' = "xover_send" /\ result' = result
       ELSE ErrorReturn /\ UNCHANGED <<wire, first, last>>
    /\ UNCHANGED <<ctx, linkVars, existingArticles, articleID,
                   artVars, outVars, histVars, lastWrite, cfgVars, fnVars>>

XoverSend ==
    /\ pc = "xover_send"
    /\ Write("XOVER")
    /\ \/ \E r \in ServerXoverReply(first, last) :
            /\ wire' = wire \o r
            /\ pc' = "xover_recv" /\ result' = result
       \/ ErrorReturn /\ wire' = wire
    /\ UNCHANGED <<ctx, linkVars, loopVars, artVars, outVars,
                   histVars, cfgVars, fnVars>>

XoverRecv ==
    /\ pc = "xover_recv"
    /\ IF HasLine(wire)
       THEN /\ \E k \in OverRead(wire) : RecvTakes(k)
            /\ IF HasPrefix(RecvLine, <<"2", "2", "4">>)
               THEN pc' = "xover_block" /\ result' = result
               ELSE ErrorReturn
       ELSE ErrorReturn /\ wire' = wire
    /\ UNCHANGED <<ctx, linkVars, loopVars, artVars, outVars,
                   histVars, lastWrite, cfgVars, fnVars>>

(* The block of GetHeaders, then the mbox file is created and the loop     *)
(* starts at last.                                                         *)
XoverBlock ==
    /\ pc = "xover_block"
    /\ \E b \in {ReadBlock(wire, <<>>)} :
           IF b.err
           THEN ErrorReturn /\ UNCHANGED <<wire, existingArticles, articleID>>
           ELSE /\ existingArticles' = OverviewIndex(b.lines)
                /\ wire' = b.rest
                /\ articleID' = last
                /\ pc' = "loop" /\ result' = result
    /\ UNCHANGED <<ctx, linkVars, first, last, artVars, outVars,
                   histVars, lastWrite, cfgVars, fnVars>>

(***************************************************************************)
(* The fetch loop.                                                         *)
(***************************************************************************)
(* The end of an iteration, by fall-through or continue: articleID--       *)
NextIteration ==
    /\ articleID' = articleID - 1
    /\ served' = <<>> /\ content' = <<>> /\ articleDate' = NoDate
    /\ pc' = "loop"

(* Mutant: connect() is tried a second time *)
ReconnectTwice ==
    /\ reconnects' = reconnects + 1
    /\ connects' = connects + 2
    /\ served' = <<>> /\ content' = <<>> /\ articleDate' = NoDate
    /\ \/ DialOk("reconnect", opened \ {connId})
       \/ /\ conn' = "closed" /\ connId' = connId /\ opened' = opened \ {connId}
          /\ sess' = "Disconnected" /\ wire' = <<>> /\ srvGroup' = FALSE
          /\ srvMore' = FALSE /\ shake' = shake
          /\ ctx' = "reconnect" /\ pc' = "quit_send" /\ result' = "error"

(* The loop closes c.conn and calls connect(); a dial that fails leaves    *)
(* c.conn the closed transport, and saveToMbox returns.                    *)
Reconnect ==
    /\ reconnects' = reconnects + 1
    /\ connects' = connects + 1
    /\ served' = <<>> /\ content' = <<>> /\ articleDate' = NoDate
    /\ \/ DialOk("reconnect", opened \ {connId})
       \/ /\ conn' = "closed" /\ connId' = connId /\ opened' = opened \ {connId}
          /\ sess' = "Disconnected" /\ wire' = <<>> /\ srvGroup' = FALSE
          /\ srvMore' = FALSE /\ shake' = shake
          /\ ctx' = "reconnect" /\ pc' = "quit_send" /\ result' = "error"

ArticleError ==
    /\ articleErrors' = articleErrors + 1
    /\ failed' = failed \cup {articleID}
    /\ Reconnect

LoopSkip ==
    /\ pc = "loop" /\ articleID >= first /\ articleID \notin existingArticles
    /\ NextIteration
    /\ UNCHANGED <<ctx, result, connVars, first, last, existingArticles, outVars, histVars,
                   lastWrite, cfgVars, fnVars>>

LoopExit ==
    /\ pc = "loop" /\ articleID < first
    /\ pc' = "quit_send" /\ result' = "ok"
    /\ UNCHANGED <<ctx, connVars, loopVars, artVars, outVars, histVars, lastWrite,
                   cfgVars, fnVars>>

(* Mutant: ARTICLE is sent whatever the overview index says *)
ArticleSendUnfiltered ==
    /\ pc = "loop" /\ articleID >= first
    /\ Write("ARTICLE")
    /\ requested' = Append(requested, articleID)
    /\ \/ \E r \in ServerArticleReply(srvGroup) :
            /\ wire' = wire \o r.wire
            /\ served' = r.text
            /\ srvMore' = r.more
            /\ pc' = "art_recv"
            /\ UNCHANGED <<ctx, result, conn, connId, opened, sess, srvGroup, shake, content,
                           articleDate, errVars>>
       \/ ArticleError
    /\ UNCHANGED <<loopVars, outVars, due, cfgVars, fnVars>>

ArticleSend ==
    /\ pc = "loop" /\ articleID >= first /\ articleID \in existingArticles
    /\ Write("ARTICLE")
    /\ requested' = Append(requested, articleID)
    /\ \/ \E r \in ServerArticleReply(srvGroup) :
            /\ wire' = wire \o r.wire
            /\ served' = r.text
            /\ srvMore' = r.more
            /\ pc' = "art_recv"
            /\ UNCHANGED <<ctx, result, conn, connId, opened, sess, srvGroup, shake, content,
                           articleDate, errVars>>
       \/ ArticleError
    /\ UNCHANGED <<loopVars, outVars, due, cfgVars, fnVars>>

(* Mutant: a reply other than 220 is treated as a failed fetch *)
ArticleRecvNon220Fatal ==
    /\ pc = "art_recv"
    /\ IF HasLine(wire) /\ HasPrefix(TrimSpace(FirstLine(wire)), <<"2", "2", "0">>)
       THEN /\ \E k \in OverRead(wire) : RecvTakes(k)
            /\ pc' = "art_block" /\ due' = due \cup {articleID}
            /\ UNCHANGED <<articleID, artVars>>
            /\ UNCHANGED <<ctx, result, linkVars, errVars>>
       ELSE ArticleError /\ UNCHANGED <<articleID, due>>
    /\ UNCHANGED <<first, last, existingArticles, outVars, requested, lastWrite,
                   cfgVars, fnVars>>

ArticleRecv ==
    /\ pc = "art_recv"
    /\ IF HasLine(wire)
       THEN /\ \E k \in OverRead(wire) : RecvTakes(k)
            /\ IF HasPrefix(RecvLine, <<"2", "2", "0">>)
               THEN /\ pc' = "art_block" /\ due' = due \cup {articleID}
                    /\ UNCHANGED <<articleID, artVars>>
               ELSE NextIteration /\ due' = due
            /\ UNCHANGED <<ctx, result, linkVars, errVars>>
       ELSE ArticleError /\ UNCHANGED <<articleID, due>>
    /\ UNCHANGED <<first, last, existingArticles, outVars, requested, lastWrite,
                   cfgVars, fnVars>>

(* Mutant: the lines read before a failed read are written out *)
ArticleReadBlockKeepsPartial ==
    /\ pc = "art_block"
    /\ \E b \in {ReadBlock(wire, <<>>)} :
           IF b.err
           THEN /\ ArticleError /\ articleID' = articleID
                /\ mbox' = IF HasLine(wire) THEN Append(mbox, [id |-> articleID]) ELSE mbox
                /\ synced' = synced
           ELSE /\ wire' = b.rest
                /\ IF Join(b.lines) # <<>>
                   THEN /\ content' = Join(b.lines)
                        /\ pc' = "filter"
                        /\ UNCHANGED <<articleID, served, articleDate>>
                   ELSE NextIteration
                /\ UNCHANGED <<ctx, result, linkVars, errVars, outVars>>
    /\ UNCHANGED <<first, last, existingArticles, requested, due, lastWrite,
                   cfgVars, fnVars>>

(* The block of Article; an empty text is "not fetched" for the loop *)
ArticleReadBlock ==
    /\ pc = "art_block"
    /\ \E b \in {ReadBlock(wire, <<>>)} :
           IF b.err
           THEN ArticleError /\ articleID' = articleID
           ELSE /\ wire' = b.rest
                /\ IF Join(b.lines) # <<>>
                   THEN /\ content' = Join(b.lines)
                        /\ pc' = "filter"
                        /\ UNCHANGED <<articleID, served, articleDate>>
                   ELSE NextIteration
                /\ UNCHANGED <<ctx, result, linkVars, errVars>>
    /\ UNCHANGED <<first, last, existingArticles, outVars, requested, due, lastWrite,
                   cfgVars, fnVars>>

(* The server sends one more line of a block it has not ended, before the *)
(* read deadline of the loop in Article passes.                            *)
ServerSendsLine ==
    /\ pc = "art_block" /\ srvMore /\ ~HasLine(wire)
    /\ wire' = wire \o Line(BodyLine)
    /\ UNCHANGED <<pc, ctx, result, linkVars,
                   loopVars, artVars, outVars, histVars, lastWrite, cfgVars, fnVars>>

(* Iterations of the loop in Article over lines that are no lone dot, with *)
(* more to come: each resets the deadline and appends to the local slice,  *)
(* which only the return after the lone dot hands out.                     *)
ArticleReadLines ==
    /\ pc = "art_block" /\ srvMore /\ HasLine(wire)
    /\ ReadBlock(wire, <<>>).err
    /\ wire' = <<>>
    /\ UNCHANGED <<pc, ctx, result, linkVars,
                   loopVars, artVars, outVars, histVars, lastWrite, cfgVars, fnVars>>

(* The date of the article and the range check *)
Filter ==
    /\ pc = "filter"
    /\ \E now \in Times, when \in Times :
         LET d == ArticleDate(content, now, when)
         IN  /\ articleDate' = d
             /\ pc' = IF BeforeStart(d) \/ AfterEnd(d) THEN "discard" ELSE "append"
    /\ UNCHANGED <<ctx, result, connVars, loopVars, served, content, outVars, histVars,
                   lastWrite, cfgVars, fnVars>>

(* "before start date, skipping" / "after end date, skipping": continue *)
Discard ==
    /\ pc = "discard"
    /\ NextIteration
    /\ due' = due \ {articleID}
    /\ UNCHANGED <<ctx, result, connVars, first, last, existingArticles, outVars, requested,
                   errVars, lastWrite, cfgVars, fnVars>>

(* fmt.Fprintf(mboxFile, ...) of content, non-empty here *)
AppendRecord ==
    /\ pc = "append" /\ content # <<>>
    /\ mbox' = Append(mbox, [id |-> articleID])
    /\ pc' = "sync"
    /\ UNCHANGED <<ctx, result, connVars, loopVars, artVars, synced, histVars, lastWrite,
                   cfgVars, fnVars>>

(* Mutant: the record is left unflushed *)
SyncLeftOut ==
    /\ pc = "sync"
    /\ NextIteration
    /\ UNCHANGED <<ctx, result, connVars, first, last, existingArticles, outVars, histVars,
                   lastWrite, cfgVars, fnVars>>

(* mboxFile.Sync(), and the iteration ends *)
Sync ==
    /\ pc = "sync"
    /\ synced' = Len(mbox)
    /\ NextIteration
    /\ UNCHANGED <<ctx, result, connVars, first, last, existingArticles, mbox, histVars,
                   lastWrite, cfgVars, fnVars>>

(***************************************************************************)
(* The deferred client.Quit().                                             *)
(***************************************************************************)
QuitSend ==
    /\ pc = "quit_send"
    /\ Write("QUIT")
    /\ \/ /\ conn = "open"
          /\ \E r \in ServerQuitReply : wire' = wire \o r
          /\ pc' = "quit_recv"
       \/ pc' = "done" /\ wire' = wire
    /\ UNCHANGED <<ctx, result, linkVars, loopVars, artVars,
                   outVars, histVars, cfgVars, fnVars>>

QuitRecv ==
    /\ pc = "quit_recv"
    /\ IF HasLine(wire)
       THEN /\ conn' = "closed" /\ opened' = opened \ {connId}
            /\ sess' = "Disconnected" /\ wire' = <<>> /\ srvGroup' = FALSE
            /\ srvMore' = FALSE
       ELSE UNCHANGED <<conn, opened, sess, wire, srvGroup, srvMore>>
    /\ pc' = "done"
    /\ UNCHANGED <<ctx, result, connId, shake, loopVars, artVars, outVars, histVars, lastWrite,
                   cfgVars, fnVars>>

Next ==
    \/ NewNNTPClient \/ RecvWelcome
    \/ SendUser \/ RecvUser \/ SendPass \/ RecvPass \/ SendMode \/ RecvMode
    \/ GroupSend \/ GroupRecv \/ XoverSend \/ XoverRecv \/ XoverBlock
    \/ LoopSkip \/ LoopExit \/ ArticleSend \/ ArticleRecv \/ ArticleReadBlock
    \/ ServerSendsLine \/ ArticleReadLines
    \/ Filter \/ Discard \/ AppendRecord \/ Sync
    \/ QuitSend \/ QuitRecv

Spec == Init /\ [][Next]_vars

(* saveToMbox is sequential code on one goroutine that nothing suspends: a *)
(* step that can be taken is taken.  One date range, with articles on both *)
(* sides of its start.                                                     *)
InitLive == Init /\ startDate = Midnight(MaxDay) /\ endDate = NoDate

SpecLive == InitLive /\ [][Next]_vars /\ WF_vars(Next)


(***************************************************************************)
(* Group applied to one status line, as recv() hands it over.              *)
(***************************************************************************)
MaxFields == 5      \* a reply line has at most MaxFields space-separated fields

GroupNums == {0, 1, 2, 12}
GroupFields ==
    {<<"2", "1", "1">>, <<"4", "1", "1">>, <<"g">>, <<>>} \cup {Itoa(n) : n \in GroupNums}

RECURSIVE JoinSp(_)
JoinSp(fs) ==
    IF fs = <<>> THEN <<>>
    ELSE IF Len(fs) = 1 THEN fs[1]
    ELSE fs[1] \o <<SP>> \o JoinSp(Tail(fs))

GroupReplies ==
    {TrimSpace(JoinSp(fs)) : fs \in UNION {[1..n -> GroupFields] : n \in 0..MaxFields}}

InitGroup ==
    /\ pc = "fn_group"
    /\ RunIdle
    /\ startDate = NoDate /\ endDate = NoDate
    /\ fin \in GroupReplies
    /\ fout = <<>>

GroupApply ==
    /\ pc = "fn_group"
    /\ fout' = GroupParse(fin)
    /\ pc' = "fn_done"
    /\ UNCHANGED <<ctx, result, connVars, loopVars, artVars, outVars, histVars, lastWrite,
                   cfgVars, fin>>

SpecGroup == InitGroup /\ [][GroupApply]_vars

(***************************************************************************)
(* GetHeaders applied to one XOVER block on the wire.                      *)
(***************************************************************************)
MaxLines == 2       \* an XOVER block has at most MaxLines lines

XoverLineSet ==
    { <<"1", TAB, "s">>, <<"2", TAB, "s">>, <<"1", "2", TAB, "s">>, <<"0", TAB, "s">>,
      <<"x", TAB, "1">>, <<"2", "x", TAB, "s">>, <<TAB, "s">>, <<>> }

XoverBlocks == UNION {[1..n -> XoverLineSet] : n \in 0..MaxLines}

InitXover ==
    /\ pc = "fn_xover"
    /\ RunIdle
    /\ startDate = NoDate /\ endDate = NoDate
    /\ fin \in XoverBlocks
    /\ fout = <<>>

XoverApply ==
    /\ pc = "fn_xover"
    /\ LET b == ReadBlock(BlockOf(fin), <<>>)
       IN  fout' = [err |-> b.err, index |-> OverviewIndex(b.lines)]
    /\ pc' = "fn_done"
    /\ UNCHANGED <<ctx, result, connVars, loopVars, artVars, outVars, histVars, lastWrite,
                   cfgVars, fin>>

SpecXover == InitXover /\ [][XoverApply]_vars


(***************************************************************************)
(* Properties.                                                             *)
(***************************************************************************)
SetMax(S) == CHOOSE x \in S : \A y \in S : y <= x
RecordIds == {mbox[i].id : i \in 1..Len(mbox)}
Descending(q) == \A i \in 1..Len(q), j \in 1..Len(q) : i < j => q[i] > q[j]
InLoop == pc \in {"loop", "art_recv", "art_block", "filter", "discard", "append", "sync"}

(* The present ids below n that the loop can still reach *)
PresentBelow(n) == {j \in existingArticles : first <= j /\ j < n}

(* C1: the ids of the ARTICLE commands issued are strictly descending, so  *)
(* no id is requested twice, an id whose fetch failed included; each       *)
(* command after the first is for the highest present id below the one     *)
(* before it, whether that one was fetched or failed; and whenever the     *)
(* loop is at its head the cursor is below every id requested so far.      *)
C1_FailedIdSkipped ==
    /\ Descending(requested)
    /\ \A i \in 1..(Len(requested) - 1) :
         /\ PresentBelow(requested[i]) # {}
         /\ requested[i + 1] = SetMax(PresentBelow(requested[i]))
    /\ pc = "loop" => \A i \in 1..Len(requested) : requested[i] > articleID
    /\ InLoop => articleID <= last
    /\ failed \subseteq {requested[i] : i \in 1..Len(requested)}

(* A fetch failed, the reconnect succeeded, and the next ARTICLE went to a *)
(* lower present id beyond a gap in the overview index.                    *)
C1_Witness ==
    \E i \in 1..(Len(requested) - 1) :
        /\ requested[i] \in failed
        /\ requested[i + 1] < requested[i] - 1
        /\ pc = "art_recv"

(* C2: once a reconnect has failed the run is on its way out with an       *)
(* error: saveToMbox only runs the deferred Quit and returns, it sends no  *)
(* further ARTICLE, appends and flushes nothing more, and the records      *)
(* already in the archive stay as they are (the step on which the          *)
(* reconnect fails included).                                              *)
ReconnectFailed == ctx = "reconnect" /\ result = "error"

C2_ReconnectFailureAborts ==
    /\ [](ReconnectFailed => pc \in {"quit_send", "quit_recv", "done"})
    /\ [][/\ ReconnectFailed' => mbox' = mbox /\ synced' = synced
          /\ ReconnectFailed => ReconnectFailed' /\ requested' = requested]_vars

(* The run ended on a failed reconnect with a record already archived *)
C2_Witness == ReconnectFailed /\ pc = "done" /\ Len(mbox) >= 1

(* C3: the loop has closed the transport once, and connect() has been      *)
(* called once, for each Article call that returned an error, and never    *)
(* otherwise: connect() calls are the initial one plus one per failure.    *)
C3_OneReconnectPerFailure ==
    /\ reconnects = articleErrors
    /\ connects = (IF pc = "start" THEN 0 ELSE 1) + articleErrors
    /\ articleErrors = Cardinality(failed)

(* Two fetches have failed and each was answered by one reconnect *)
C3_Witness == articleErrors = 2 /\ reconnects = 2 /\ connects = 3


(* C4: in a run that ends without any transport failure the archive holds  *)
(* exactly one record for each id that was answered 220 and that the date  *)
(* filter let through, and no other; and at every point of every run the   *)
(* records are in strictly descending id order.                            *)
C4_ArchiveExact ==
    /\ Descending([i \in 1..Len(mbox) |-> mbox[i].id])
    /\ (pc = "done" /\ result = "ok" /\ articleErrors = 0) =>
           (RecordIds = due /\ Len(mbox) = Cardinality(due))

(* C5: the text Article returns on a 220 reply is the lines the server     *)
(* sent before the lone dot, in order, joined by newlines, however the     *)
(* bytes were split across reads.                                          *)
C5_ArticleTextExact == pc = "filter" => content = Join(served)

(* C6: every request line is written with the transport handle open and    *)
(* the session Connected or Authenticated.                                 *)
C6_WriteOnlyWhenConnected ==
    lastWrite.cmd # "none" =>
        (lastWrite.handleOpen /\ lastWrite.sess \in {"Connected", "Authenticated"})

FirstField(line) == Split(line, TAB)[1]
WellFormedIds(lines) ==
    {Atoi(FirstField(lines[i])) : i \in {j \in 1..Len(lines) : IsInteger(FirstField(lines[j]))}}

C8_IndexExact == pc = "fn_done" => (~fout.err /\ fout.index = WellFormedIds(fin))

(* C9: Group returns (low, high) for the reply "211 count low high name"   *)
(* with low <= high, and fails, returning no range, for a reply that does  *)
(* not start with 211 or that has fewer than four space-separated fields.  *)
GroupText(c, lo, hi) ==
    <<"2", "1", "1", SP>> \o Itoa(c) \o <<SP>> \o Itoa(lo) \o <<SP>> \o Itoa(hi) \o <<SP, "g">>

C9_GroupRange ==
    pc = "fn_done" =>
        /\ \A c \in GroupNums, lo \in GroupNums, hi \in GroupNums :
             (lo <= hi /\ fin = GroupText(c, lo, hi)) =>
                 fout = [err |-> FALSE, first |-> lo, last |-> hi]
        /\ (~HasPrefix(fin, <<"2", "1", "1">>) \/ Len(Split(fin, SP)) < 4) =>
                 fout = [err |-> TRUE, first |-> 0, last |-> 0]

(* Group has returned the range of "211 2 1 12 g" *)
C9_Witness ==
    pc = "fn_done" /\ fin = GroupText(2, 1, 12) /\ fout = [err |-> FALSE, first |-> 1, last |-> 12]

(* C10: with a start and an end date configured, an article reaches the    *)
(* archive exactly when the day of its timestamp is on or between the two  *)
(* days, the end day included.                                             *)
OnOrBetween(t) == DayOf(startDate) <= DayOf(t) /\ DayOf(t) <= DayOf(endDate)

C10_InclusiveDateRange ==
    (startDate # NoDate /\ endDate # NoDate) =>
        /\ pc = "append" => OnOrBetween(articleDate)
        /\ pc = "discard" => ~OnOrBetween(articleDate)

(* C11: a status line other than 220 in answer to ARTICLE N is no failure: *)
(* Article returns no text and no error, so on that step nothing is        *)
(* appended or flushed, no error is counted, nothing is closed or dialled, *)
(* the transport and the session stay as they are, and the loop goes to    *)
(* its head with the cursor at N - 1; at the head of the loop every record *)
(* in the archive is for an id above the cursor, so N gets no record.      *)
Non220Reply ==
    pc = "art_recv" /\ HasLine(wire) /\ ~HasPrefix(RecvLine, <<"2", "2", "0">>)

C11_Non220NotFatal ==
    /\ [](pc = "loop" => \A id \in RecordIds : id > articleID)
    /\ [][Non220Reply =>
            /\ content' = <<>> /\ result' = result
            /\ mbox' = mbox /\ synced' = synced
            /\ errVars' = errVars
            /\ conn' = conn /\ connId' = connId /\ opened' = opened
            /\ sess' = sess /\ srvGroup' = srvGroup
            /\ pc' = "loop" /\ articleID' = articleID - 1
            /\ requested' = requested]_vars

(* With no date range set, the last ARTICLE was answered on a selected     *)
(* group with something other than 220: it neither failed nor is it due,   *)
(* the loop is at its head one id lower, on the same open session, and an  *)
(* earlier article is in the archive.                                      *)
C11_Witness ==
    /\ pc = "loop" /\ Len(requested) >= 1
    /\ requested[Len(requested)] = articleID + 1
    /\ requested[Len(requested)] \notin (failed \cup due)
    /\ startDate = NoDate /\ endDate = NoDate
    /\ srvGroup /\ conn = "open" /\ sess = "Authenticated"
    /\ Len(mbox) >= 1 /\ articleErrors = 0

(* C12: when NewNNTPClient, Group or GetHeaders returns an error the run   *)
(* is over: only the deferred Quit is left, connect() has been called once *)
(* and is not called again, no ARTICLE has been or will be sent, and the   *)
(* archive has and gets no record.  connect() is called again only by the  *)
(* loop, on the step on which an Article call for the current id fails.    *)
PreLoopFailed == ctx = "new" /\ result = "error"

C12_PreLoopFailureAborts ==
    /\ [](PreLoopFailed =>
            /\ pc \in {"quit_send", "quit_recv", "done"}
            /\ requested = <<>> /\ mbox = <<>>
            /\ reconnects = 0 /\ connects = 1 /\ connId <= 1)
    /\ [][/\ PreLoopFailed => PreLoopFailed'
          /\ (connects' # connects \/ reconnects' # reconnects \/ connId' # connId) =>
                \/ pc = "start"
                \/ /\ pc \in {"loop", "art_recv", "art_block"}
                   /\ Len(requested') >= 1
                   /\ requested'[Len(requested')] = articleID
                   /\ articleErrors' = articleErrors + 1
                   /\ failed' = failed \cup {articleID}]_vars

(* The run has ended on an error of GetHeaders: Group had returned a range *)
C12_Witness ==
    /\ PreLoopFailed /\ pc = "done"
    /\ first >= 1 /\ last >= first
    /\ lastWrite.cmd = "QUIT"

(* C13: once the line read in answer to AUTHINFO PASS lacks the code 281,  *)
(* connect() has failed, AUTHINFO PASS stays the last line written on that *)
(* transport (no MODE READER, nothing after it), the session is            *)
(* Disconnected and the transport is closed.                               *)
AuthRejected == shake # <<>> /\ shake[Len(shake)] = "not 281"

C13_AuthRejectionCloses ==
    AuthRejected =>
        /\ result = "error" /\ sess = "Disconnected"
        /\ lastWrite.cmd = "AUTHINFO PASS"
        /\ conn = "closed" /\ connId \notin opened

(* C14: every ARTICLE command issued, and so every record, is for an id    *)
(* between first and last that is a key of the map GetHeaders returned;    *)
(* and at the head of the loop with an id in range that is no key of the   *)
(* map, the step writes no line, the server sends nothing, nothing is      *)
(* appended or flushed, and the loop is at its head again one id lower.    *)
InRangeAndPresent(id) == first <= id /\ id <= last /\ id \in existingArticles

AbsentId == pc = "loop" /\ articleID >= first /\ articleID \notin existingArticles

C14_OnlyPresentIdsFetched ==
    /\ [](/\ \A i \in 1..Len(requested) : InRangeAndPresent(requested[i])
          /\ \A id \in RecordIds : InRangeAndPresent(id))
    /\ [][AbsentId =>
            /\ lastWrite' = lastWrite /\ requested' = requested /\ wire' = wire
            /\ mbox' = mbox /\ synced' = synced
            /\ pc' = "loop" /\ articleID' = articleID - 1]_vars

(* The id above the cursor is in range and absent from the index: it was   *)
(* skipped between the ARTICLE for the id above it, which is archived, and *)
(* the head of the loop.                                                   *)
C14_Witness ==
    /\ pc = "loop" /\ Len(requested) >= 1
    /\ first <= articleID + 1 /\ articleID + 1 \notin existingArticles
    /\ requested[Len(requested)] = articleID + 2
    /\ RecordIds = {articleID + 2}

(* C15: on every transport connect() dials, what it writes and reads is,   *)
(* in this order and as far as it gets: the greeting read, AUTHINFO USER   *)
(* written, its reply read, AUTHINFO PASS written, a 281 read, MODE READER *)
(* written, its reply read; a reply to AUTHINFO PASS without 281 is the    *)
(* last thing connect() does.  GROUP, XOVER and ARTICLE are written only   *)
(* on a transport on which the whole exchange has taken place.             *)
Handshake ==
    <<"greeting", "AUTHINFO USER", "reply", "AUTHINFO PASS", "281", "MODE READER", "reply">>

IsPrefix(p, q) == Len(p) <= Len(q) /\ p = SubSeq(q, 1, Len(p))

C15_HandshakeFirst ==
    /\ \/ IsPrefix(shake, Handshake)
       \/ shake = SubSeq(Handshake, 1, 4) \o <<"not 281">>
    /\ lastWrite.cmd \in {"GROUP", "XOVER", "ARTICLE"} => lastWrite.shake = Handshake
    /\ pc \in {"group_send", "xover_send", "loop"} => shake = Handshake

(* An ARTICLE has been written on the second transport of the run, after   *)
(* the whole exchange on it                                                *)
C15_Witness ==
    /\ pc = "art_recv" /\ connId = 2 /\ reconnects = 1
    /\ lastWrite.cmd = "ARTICLE" /\ lastWrite.shake = Handshake

(* C16: a request line is written, and a record is appended and flushed,   *)
(* only when every byte the server sent in answer to the requests before   *)
(* it on this transport has been read: the status line, and behind a 220   *)
(* or 224 the block through its lone dot.  The one exception is the QUIT   *)
(* of a run that is returning an error, where a read has failed.           *)
AboutToWrite ==
    \/ pc \in {"user_send", "pass_send", "mode_send", "group_send", "xover_send"}
    \/ pc = "loop" /\ articleID >= first /\ articleID \in existingArticles
    \/ pc = "quit_send" /\ result = "ok"

C16_OneOutstanding == (AboutToWrite \/ pc \in {"append", "sync"}) => wire = <<>>

(* C17: every run of saveToMbox comes to its end, whatever the server      *)
(* sends or fails to send.                                                 *)
C17_Terminates == <>(pc = "done")

(* C18: every ARTICLE command is written to a connection on which the      *)
(* server has answered a GROUP command with 211, the connection made by a  *)
(* reconnect in the middle of the loop included.                           *)
C18_GroupSelectedBeforeArticle == lastWrite.cmd = "ARTICLE" => lastWrite.groupSel

(* C19: at most one transport is open at a time, and when the run is over, *)
(* however it ended, every transport it dialled has been closed.           *)
C19_TransportsClosed ==
    /\ Cardinality(opened) <= 1
    /\ pc = "done" => opened = {}

(* C20: an article id whose fetch ended in a read or write failure has no  *)
(* record in the archive: the step that fails appends nothing and leaves   *)
(* no text behind, the lines read before the failure included, and the id  *)
(* is not asked for again.                                                 *)
C20_FailedFetchLeavesNoRecord ==
    /\ [](RecordIds \cap failed = {})
    /\ [][failed' # failed =>
              /\ failed' = failed \cup {articleID}
              /\ mbox' = mbox /\ synced' = synced
              /\ content' = <<>>]_vars
    /\ [][(articleID \in failed) => (articleID' <= articleID /\ mbox' = mbox)]_vars

(* The 220 line of an article was read, its block failed before the lone   *)
(* dot, the reconnect succeeded and the loop is at the next id; the        *)
(* archive holds the articles fetched before and nothing for the failed id *)
C20_Witness ==
    /\ pc = "loop" /\ ctx = "reconnect" /\ result = "running"
    /\ (articleID + 1) \in failed \cap due
    /\ (articleID + 1) \notin RecordIds
    /\ mbox # <<>>

====
